---- MODULE Spec2Model ----
(***************************************************************************)
(* Model of pdfify.py: the batch driver (main), the dispatcher             *)
(* (convert_to_pdf), the three converters and the capability probe.        *)
(*                                                                         *)
(* A file name is the sequence of its dot-separated components:            *)
(* <<"a","png","temp","jpg">> is "a.png.temp.jpg".  A path is              *)
(* <<directory, name>>.  The file system is the function `files` from the  *)
(* paths of regular files to their content, and the set `dirs` of paths    *)
(* that are directories.                                                   *)
(***************************************************************************)
EXTENDS Integers, Sequences, FiniteSets, TLC

\* ---------------------------------------------------------------- bounds
MaxEntries == 2        \* entries in the working directory before the run
MaxCalls   == 1        \* dispatcher calls in DispatchSpec

\* ------------------------------------------------------------ directories
WorkDir == "work"                 \* os.getcwd() when main starts
OutName == <<"pdf_output">>
OutDir  == "work/pdf_output"      \* os.path.join(current_dir, "pdf_output")
OutDirPath == <<WorkDir, OutName>>

ScriptName == <<"pdfify", "py">>  \* os.path.basename(__file__)

None == <<>>

\* ----------------------------------------------------- the name universe
FileNames ==
  { <<"a","txt">>, <<"a","png">>, <<"a","png","temp","jpg">>,
    <<"r","docx">>, <<"b","TXT">>, <<"z","zip">>, ScriptName }
DirNames == { <<"d","txt">> }     \* a sub-directory with a supported suffix
EntryNames == FileNames \cup DirNames

StalePdfs == { <<"r","pdf">> }    \* PDFs an earlier run may have left

\* inputs of the dispatcher when it is exercised on its own
DispatchNames ==
  EntryNames \cup
  { <<"a", e>> : e \in {"md","csv","jpg","jpeg","bmp","gif","doc",
                        "PNG","DOCX"} }
  \cup { <<"noext">> }

\* what the environment does to one converter call: nothing, or one fault.
\* A fault that does not concern the converter called leaves it undisturbed.
Faults ==
  { "none",
    "io_fail",      \* text: reading the input or writing the PDF fails
    "fail_open",    \* image: Image.open fails (unreadable image)
    "fail_pdf",     \* image: building or writing the PDF fails, temp file saved
    "ok_nofile",    \* document: abiword exits 0 and has written nothing
    "nonzero",      \* document: abiword exits non-zero
    "missing" }     \* document: no abiword binary (FileNotFoundError)

FaultsOf(conv) ==
  CASE conv = "Text"     -> {"io_fail"}
    [] conv = "Image"    -> {"fail_open", "fail_pdf"}
    [] conv = "Document" -> {"ok_nofile", "nonzero", "missing"}
    [] OTHER             -> {}

VARIABLES
  pc,               \* position of main: start, probed, scan, summary, done, aborted
  probe,            \* outcome of check_dependencies
  files,            \* path -> content, regular files
  dirs,             \* paths that are directories
  cwd,              \* process-wide working directory
  listing,          \* result of os.listdir(current_dir)
  todo,             \* entries of the listing the for loop has not reached
  converted_files,
  failed_files,
  report,           \* the printed summary, None before it is printed
  last,             \* the last dispatcher call and what became of it
  files0,           \* the files at the start
  calls             \* number of dispatcher calls made in DispatchSpec

vars == <<pc, probe, files, dirs, cwd, listing, todo, converted_files,
          failed_files, report, last, files0, calls>>

\* ------------------------------------------------------------- os.path
splitext(name) ==
  IF Len(name) >= 2
    THEN <<SubSeq(name, 1, Len(name) - 1), name[Len(name)]>>
    ELSE <<name, "">>

lower(e) ==
  CASE e = "TXT"  -> "txt"
    [] e = "PNG"  -> "png"
    [] e = "DOCX" -> "docx"
    [] OTHER      -> e

exists(fs, p) == p \in DOMAIN fs \/ p \in dirs

dir_exists(d) == d = WorkDir \/ (d = OutDir /\ OutDirPath \in dirs)

isdir(p) == p \in dirs

Write(fs, p, c) == [q \in DOMAIN fs \cup {p} |-> IF q = p THEN c ELSE fs[q]]

Remove(fs, p) == [q \in DOMAIN fs \ {p} |-> fs[q]]


\* ------------------------------------------------------- the converters
\* Each converter yields what the call returned (ret), whether an exception
\* escaped it (raised), the file system and working directory it leaves
\* behind, and whether it wrote a PDF at output_file (wrote).
Outcome(r, x, fs, wd, w) ==
  [ret |-> r, raised |-> x, files |-> fs, cwd |-> wd, wrote |-> w]

\* convert_txt_to_pdf without the try/except: an I/O error escapes
convert_txt_to_pdf_raising(input_file, output_file, o) ==
  IF input_file \notin DOMAIN files \/ o = "io_fail"
       \/ ~dir_exists(output_file[1])
    THEN Outcome(FALSE, TRUE, files, cwd, FALSE)
    ELSE Outcome(TRUE, FALSE, Write(files, output_file, "pdf"), cwd, TRUE)

convert_txt_to_pdf(input_file, output_file, o) ==
  IF input_file \notin DOMAIN files \/ o = "io_fail"
       \/ ~dir_exists(output_file[1])
    THEN Outcome(FALSE, FALSE, files, cwd, FALSE)        \* except Exception
    ELSE Outcome(TRUE, FALSE, Write(files, output_file, "pdf"), cwd, TRUE)

temp_jpg(input_file) == <<input_file[1], input_file[2] \o <<"temp", "jpg">>>>

\* convert_image_to_pdf that forgets os.remove(temp_jpg)
convert_image_to_pdf_noremove(input_file, output_file, o) ==
  IF input_file \notin DOMAIN files \/ o = "fail_open"
    THEN Outcome(FALSE, FALSE, files, cwd, FALSE)
    ELSE LET saved == Write(files, temp_jpg(input_file), "jpeg")
         IN  IF o = "fail_pdf" \/ ~dir_exists(output_file[1])
               THEN Outcome(FALSE, FALSE, saved, cwd, FALSE)
               ELSE Outcome(TRUE, FALSE,
                            Write(saved, output_file, "pdf"), cwd, TRUE)

convert_image_to_pdf(input_file, output_file, o) ==
  IF input_file \notin DOMAIN files \/ o = "fail_open"
    THEN Outcome(FALSE, FALSE, files, cwd, FALSE)        \* Image.open fails
    ELSE LET saved == Write(files, temp_jpg(input_file), "jpeg")
         IN  IF o = "fail_pdf" \/ ~dir_exists(output_file[1])
               THEN Outcome(FALSE, FALSE, saved, cwd, FALSE)
               ELSE Outcome(TRUE, FALSE,
                            Remove(Write(saved, output_file, "pdf"),
                                   temp_jpg(input_file)),
                            cwd, TRUE)

convert_docx_to_pdf(input_file, output_file, o) ==
  LET output_dir  == output_file[1]
      current_dir == cwd
      produced    == <<output_dir, splitext(input_file[2])[1] \o <<"pdf">>>>
      after       == IF o # "ok_nofile"
                       THEN Write(files, produced, "pdf") ELSE files
      expected_pdf == <<output_dir, splitext(input_file[2])[1] \o <<"pdf">>>>
  IN  IF ~dir_exists(output_dir)
        THEN Outcome(FALSE, FALSE, files, cwd, FALSE)    \* os.chdir raises
      ELSE IF o \in {"nonzero", "missing"} \/ input_file \notin DOMAIN files
        THEN Outcome(FALSE, FALSE, files, output_dir, FALSE)
      ELSE IF exists(after, expected_pdf) /\ expected_pdf # output_file
        THEN Outcome(TRUE, FALSE,
                     Write(Remove(after, expected_pdf), output_file,
                           after[expected_pdf]),
                     current_dir, o # "ok_nofile")
      ELSE Outcome(TRUE, FALSE, after, current_dir,
                   o # "ok_nofile" /\ produced = output_file)

\* ------------------------------------------------------- the dispatcher
\* the image branch without ".png"
converter_for_nopng(extension) ==
  IF extension \in {"txt", "md", "csv"} THEN "Text"
  ELSE IF extension \in {"jpg", "jpeg", "bmp", "gif"} THEN "Image"
  ELSE IF extension \in {"docx", "doc"} THEN "Document"
  ELSE "Unsupported"

converter_for(extension) ==
  IF extension \in {"txt", "md", "csv"} THEN "Text"
  ELSE IF extension \in {"jpg", "jpeg", "png", "bmp", "gif"} THEN "Image"
  ELSE IF extension \in {"docx", "doc"} THEN "Document"
  ELSE "Unsupported"

convert_to_pdf(input_file, output_dir, env) ==
  LET file_name        == input_file[2]
      name_without_ext == splitext(file_name)[1]
      extension        == lower(splitext(file_name)[2])
      output_file      == <<output_dir, name_without_ext \o <<"pdf">>>>
      conv             == converter_for(extension)
      r == CASE conv = "Text" ->
                  convert_txt_to_pdf(input_file, output_file, env)
             [] conv = "Image" ->
                  convert_image_to_pdf(input_file, output_file, env)
             [] conv = "Document" ->
                  convert_docx_to_pdf(input_file, output_file, env)
             [] OTHER -> Outcome(FALSE, FALSE, files, cwd, FALSE)
  IN  [conv    |-> conv,
       success |-> r.ret,
       raised  |-> r.raised,
       result  |-> IF conv # "Unsupported" /\ r.ret THEN output_file ELSE None,
       files   |-> r.files,
       cwd     |-> r.cwd,
       wrote   |-> r.wrote,
       outcome |-> IF env \in FaultsOf(conv) THEN env ELSE "none"]

\* ---------------------------------------------------- the capability probe
\* o: what running ['which', 'abiword'] does.  "found": exit 0; "notfound":
\* exit 1 (CalledProcessError); "nowhich": `which` itself cannot be executed
\* (FileNotFoundError, which the except clause does not name).
ProbeOutcomes == {"found", "notfound", "nowhich"}

check_dependencies(o) ==
  CASE o = "found"    -> [raised |-> FALSE, probe |-> "present"]
    [] o = "notfound" -> [raised |-> FALSE, probe |-> "absent"]
    [] OTHER          -> [raised |-> TRUE,  probe |-> "raised"]

\* ------------------------------------------------------ the batch driver
supported_extensions ==
  {"txt", "md", "csv", "jpg", "jpeg", "png", "bmp", "gif", "docx", "doc"}

\* the skip test without os.path.isdir
skip_entry_nodircheck(file_path) == file_path[2] = ScriptName

skip_entry(file_path) == isdir(file_path) \/ file_path[2] = ScriptName

NoCall ==
  [file |-> None, conv |-> "NoCall", result |-> None, success |-> FALSE,
   wrote |-> FALSE, cwdBefore |-> WorkDir, recorded |-> "none",
   outcome |-> "none"]

Listdir(d, fs, ds) == { p[2] : p \in { q \in DOMAIN fs \cup ds : q[1] = d } }

Init ==
  \E S \in SUBSET EntryNames, hasOut \in BOOLEAN, stale \in SUBSET StalePdfs :
    /\ Cardinality(S) <= MaxEntries
    /\ hasOut \/ stale = {}
    /\ files = [p \in ({WorkDir} \X (S \cap FileNames)) \cup ({OutDir} \X stale)
                  |-> IF p[1] = WorkDir THEN "orig" ELSE "stale"]
    /\ dirs = ({WorkDir} \X (S \cap DirNames))
                \cup (IF hasOut THEN {OutDirPath} ELSE {})
    /\ files0 = files
    /\ pc = "start"
    /\ probe = "pending"
    /\ cwd = WorkDir
    /\ listing = {}
    /\ todo = {}
    /\ converted_files = <<>>
    /\ failed_files = <<>>
    /\ report = None
    /\ last = NoCall
    /\ calls = 0

\* main, line 144
Probe ==
  /\ pc = "start"
  /\ \E o \in ProbeOutcomes :
       LET r == check_dependencies(o)
       IN  /\ probe' = r.probe
           /\ pc' = IF r.raised THEN "aborted" ELSE "probed"
  /\ UNCHANGED <<files, dirs, cwd, listing, todo, converted_files,
                 failed_files, report, last, files0, calls>>

\* main, lines 147-167: the output directory and the listing
Setup ==
  /\ pc = "probed"
  /\ dirs' = dirs \cup {OutDirPath}
  /\ listing' = Listdir(WorkDir, files, dirs')
  /\ todo' = listing'
  /\ pc' = "scan"
  /\ UNCHANGED <<probe, files, cwd, converted_files, failed_files, report,
                 last, files0, calls>>

\* main, lines 167-183: one iteration of the for loop; the listing order is
\* the operating system's, so any remaining entry may come next
Iterate ==
  /\ pc = "scan"
  /\ \E file_name \in todo, env \in Faults :
       LET file_path == <<WorkDir, file_name>>
           extension == lower(splitext(file_name)[2])
           r         == convert_to_pdf(file_path, OutDir, env)
           ok        == r.result # None /\ exists(r.files, r.result)
       IN  /\ todo' = todo \ {file_name}
           /\ IF skip_entry(file_path) \/ extension \notin supported_extensions
                THEN UNCHANGED <<pc, files, cwd, converted_files,
                                 failed_files, last>>
              ELSE /\ files' = r.files
                   /\ cwd' = r.cwd
                   /\ pc' = IF r.raised THEN "aborted" ELSE "scan"
                   /\ converted_files' =
                        IF ~r.raised /\ ok
                          THEN Append(converted_files, file_name)
                          ELSE converted_files
                   /\ failed_files' =
                        IF ~r.raised /\ ~ok
                          THEN Append(failed_files, file_name)
                          ELSE failed_files
                   /\ last' = [file |-> file_name, conv |-> r.conv,
                               result |-> r.result, success |-> r.success,
                               wrote |-> r.wrote, cwdBefore |-> cwd,
                               recorded |-> IF r.raised THEN "none"
                                            ELSE IF ok THEN "converted"
                                            ELSE "failed",
                               outcome |-> r.outcome]
  /\ UNCHANGED <<probe, dirs, listing, report, files0, calls>>

\* main, lines 185-192
Summary ==
  /\ pc = "scan"
  /\ todo = {}
  /\ report' = [total     |-> Len(converted_files) + Len(failed_files),
                succeeded |-> Len(converted_files),
                failed    |-> Len(failed_files)]
  /\ pc' = "done"
  /\ UNCHANGED <<probe, files, dirs, cwd, listing, todo, converted_files,
                 failed_files, last, files0, calls>>

Next == Probe \/ Setup \/ Iterate \/ Summary

Spec == Init /\ [][Next]_vars

\* main runs to completion once started: nothing in it waits
FairSpec == Spec /\ WF_vars(Next)

\* ------------------------------------------- the dispatcher on its own
\* convert_to_pdf applied to any name, whether or not main would pass it
Dispatch ==
  /\ pc = "start"
  /\ calls < MaxCalls
  /\ \E file_name \in DispatchNames, env \in Faults :
       LET r == convert_to_pdf(<<WorkDir, file_name>>, OutDir, env)
       IN  /\ files' = r.files
           /\ cwd' = r.cwd
           /\ last' = [file |-> file_name, conv |-> r.conv,
                       result |-> r.result, success |-> r.success,
                       wrote |-> r.wrote, cwdBefore |-> cwd,
                       recorded |-> "none", outcome |-> r.outcome]
  /\ calls' = calls + 1
  /\ UNCHANGED <<pc, probe, dirs, listing, todo, converted_files,
                 failed_files, report, files0>>

DispatchSpec == Init /\ [][Dispatch]_vars

\* ======================================================== properties
\* what the claims compare the program against, spelled out on file names
SupportedSuffixes ==
  {"txt", "TXT", "md", "csv", "jpg", "jpeg", "png", "PNG", "bmp", "gif",
   "docx", "DOCX", "doc"}

Suffix(name) == IF Len(name) >= 2 THEN name[Len(name)] ELSE ""

Eligible(name) ==
  /\ <<WorkDir, name>> \notin dirs
  /\ name # ScriptName
  /\ Suffix(name) \in SupportedSuffixes

Count(seq, name) == Cardinality({i \in 1..Len(seq) : seq[i] = name})

SeqRange(seq) == {seq[i] : i \in 1..Len(seq)}

PdfPathOf(name) ==
  <<OutDir, (IF Len(name) >= 2 THEN SubSeq(name, 1, Len(name) - 1) ELSE name)
              \o <<"pdf">>>>

ClassOf(name) ==
  IF Suffix(name) \in {"txt", "TXT", "md", "csv"} THEN "Text"
  ELSE IF Suffix(name) \in {"jpg", "jpeg", "png", "PNG", "bmp", "gif"}
    THEN "Image"
  ELSE IF Suffix(name) \in {"docx", "DOCX", "doc"} THEN "Document"
  ELSE "Unsupported"

PdfsInOutDir(fs) == {p \in DOMAIN fs : p[1] = OutDir}

\* C1: when main has finished, every listed entry that is no directory, is
\* not the script and has a supported extension is in exactly one of
\* converted_files and failed_files, exactly once; every other entry is in
\* neither; the reported total is succeeded + failed and is the number of
\* eligible entries.
C1_EveryEligibleEntryRecordedOnce ==
  pc = "done" =>
    /\ SeqRange(converted_files) \cup SeqRange(failed_files) \subseteq listing
    /\ \A n \in listing :
         Count(converted_files, n) + Count(failed_files, n)
           = IF Eligible(n) THEN 1 ELSE 0
    /\ report.total = report.succeeded + report.failed
    /\ report.succeeded = Len(converted_files)
    /\ report.failed = Len(failed_files)
    /\ report.total = Cardinality({n \in listing : Eligible(n)})

C1_Witness ==
  /\ pc = "done"
  /\ <<"d", "txt">> \in listing
  /\ Len(converted_files) + Len(failed_files) >= 1

\* C2: once the scan has started, whatever faults hit the converter calls,
\* no exception escapes a converter and main reaches the summary with every
\* entry of the listing handled.
C2_BatchAlwaysCompletes ==
  (pc = "scan") ~> (pc = "done" /\ todo = {} /\ report # None)

C2_Witness ==
  /\ pc = "done"
  /\ Len(failed_files) >= 1
  /\ Len(converted_files) >= 1
  /\ last.outcome \in {"io_fail", "fail_open", "missing", "nonzero"}

\* C3: check_dependencies never raises, whatever happens when the binary is
\* looked up, and main goes on to the scan.
C3_ProbeNeverRaises ==
  probe # "raised" /\ (probe # "pending" => pc # "aborted")

\* C4: convert_docx_to_pdf returns false when abiword exits non-zero or is
\* missing or the produced file does not exist afterwards; it returns true
\* only if the PDF exists at the output path.
C4_DocumentSuccessMeansPdfExists ==
  last.conv = "Document" =>
    /\ last.outcome \in {"nonzero", "missing"} => ~last.success
    /\ last.success => PdfPathOf(last.file) \in DOMAIN files

\* C5: on every return from convert_docx_to_pdf the working directory is
\* the one it was when the call started.
C5_WorkingDirectoryRestored ==
  last.conv = "Document" => cwd = last.cwdBefore

\* C6: after a run that started with an empty pdf_output, the number of PDF
\* files in pdf_output is the number of files reported as converted.
C6_OnePdfPerConvertedFile ==
  (pc = "done" /\ PdfsInOutDir(files0) = {}) =>
    Cardinality(PdfsInOutDir(files)) = Len(converted_files)

\* C7: the dispatcher invokes the converter of the extension's class, the
\* extension compared case-insensitively, and no converter for an
\* unsupported one; it returns <output_dir>/<basename-without-ext>.pdf if
\* and only if that converter reported success, and otherwise None.
C7_DispatcherClassifiesAndReturns ==
  last.conv # "NoCall" =>
    /\ last.conv = ClassOf(last.file)
    /\ last.conv = "Unsupported" => (~last.success /\ ~last.wrote)
    /\ last.result = (IF last.success THEN PdfPathOf(last.file) ELSE None)

C7_Witness ==
  /\ last.file = <<"b", "TXT">>
  /\ last.conv = "Text"
  /\ last.result = <<OutDir, <<"b", "pdf">>>>

\* C8: whenever convert_image_to_pdf returns success, the temporary file
\* <input_file>.temp.jpg does not exist; a temporary file is left only by a
\* call that returned failure.
C8_NoTempFileAfterSuccess ==
  (last.conv = "Image" /\ last.success) =>
    <<WorkDir, last.file \o <<"temp", "jpg">>>> \notin DOMAIN files

C8_Witness ==
  /\ last.conv = "Image"
  /\ last.success
  /\ last.recorded = "converted"
  /\ last.file = <<"a", "png">>

\* C9: every file of the working directory that existed before the run
\* still exists with the same content.
C9_InputsUntouched ==
  \A p \in DOMAIN files0 :
    p[1] = WorkDir => (p \in DOMAIN files /\ files[p] = files0[p])

\* C10: a file is recorded as converted only if its conversion wrote the
\* PDF at its output path.
C10_ConvertedOnlyIfWritten ==
  last.recorded = "converted" => last.wrote

====
